---- MODULE Spec2Model ----
(***************************************************************************)
(* XliffTranslator: the batch translation engine                           *)
(* (ClaudeClient.translate_batch, src/src/claude_client.py) and the file   *)
(* orchestrator (XliffTranslator.translate_file, src/src/translator.py)    *)
(* with the document adapter (XliffParser, src/src/xliff_parser.py), and   *)
(* the directory mode (XliffTranslator.translate_xcode_export).            *)
(*                                                                         *)
(* A unit is a record [id, text]; texts are records [kind, of, lead] so     *)
(* that a source text, a translation of it and a pre-existing target are   *)
(* three different values; lead is the run of characters of the set that   *)
(* lstrip removes which the text begins with, the rest of the text begins  *)
(* with another character.  Unit ids are unique within a document (XLIFF   *)
(* trans-unit ids), so the inputs drawn below have pairwise distinct ids.  *)
(***************************************************************************)
EXTENDS Integers, Sequences, FiniteSets, TLC

VARIABLES
    \* ---- ClaudeClient.translate_batch: arguments and locals
    texts,                \* argument: list of (id, text) units
    batch_size,           \* argument: initial batch size
    translations,         \* local: id -> translated text
    remaining_texts,      \* local: the pending queue
    current_batch_size,   \* local
    batch,                \* local: the batch handed to the backend
    attempt,              \* local: index of the for loop over range(max_retries)
    pc,                   \* "idle" | "call" | "returned" | "raised"
    error,                \* the ValueError translate_batch raised, "none" if none
    failed_log,           \* ids written by log("Failed to translate text: ...")
    \* ---- observation of the backend calls made (history)
    clean_calls,          \* backend calls made before the first failed call
    last,                 \* the most recent backend call and how it ended
    owed,                 \* units of the most recent failed call, when that was a
                          \* shape mismatch of a full batch of k > 1 units, that
                          \* are not in translations yet
    kinds,                \* failure kinds of the attempts of the current for loop
    response,             \* the lines of the most recent backend answer
    batch_translations,   \* what the most recent _translate_single_batch returned
    all_ok,               \* no backend call has failed so far
    \* ---- the file system
    input_file,           \* content of the file at input_path
    backup_file,          \* content of the file at input_path + ".bak"
    \* ---- XliffTranslator.translate_file: arguments and locals
    skip_translated,      \* argument
    fpc,                  \* "start" | "parse" | "batches" | "in_batch" | "rewrite"
                          \* | "restore" | "done" | "failed" ("none": no file run)
    xliff_data,           \* local: the parsed document (its trans-units)
    translation_pairs,    \* local: (id, source) units needing translation
    existing_translations,\* local: id -> target of the units already translated
    file_translations,    \* local `translations` of translate_file
    i,                    \* local: start of the slice of the outer for loop (0-based)
    cause,                \* the exception that ended the run, "none" if none
    \* ---- observation of one translate_file run (history)
    pre_content,          \* content of the input file when the run started
    called,               \* a backend call was made during the run
    min_size,             \* smallest batch size a reduction reached during the run
    restored,             \* "none" | "ok" | "failed": how the restore ended
    io_fault,             \* a file operation or the injection failed during the run
    run_no,               \* number of the run on this file (1 = first)
    \* ---- the app context
    app_context,          \* translate_file: argument and local app_context
    batch_context,        \* translate_batch: argument app_context
    prompt_context,       \* the app_context of the most recent backend call
                          \* (history)
    \* ---- XliffTranslator.translate_xcode_export: arguments and locals
    export_path,          \* argument: what is found at the path of the export folder
    target_languages,     \* argument: the language allowlist, or None
    xcloc_folders,        \* local: what glob found, in the order it gave them
    folder_no,            \* number of folders the for loop is done with
    results,              \* local: language code -> success
    xpc,                  \* "start" | "in_file" | "returned" | "raised"
                          \* ("none": no directory run)
    \* ---- observation of one translate_xcode_export call (history)
    ends                  \* language code -> how the folder ended: "done" or
                          \* "failed" (the end of its translate_file run),
                          \* "missing" (no XLIFF file)

engine_vars == <<texts, batch_size, translations, remaining_texts,
                 current_batch_size, batch, attempt, pc, error, failed_log>>
hist_vars == <<clean_calls, last, owed, kinds, all_ok, response, batch_translations>>
fs_vars == <<input_file, backup_file>>
file_vars == <<skip_translated, fpc, xliff_data, translation_pairs,
               existing_translations, file_translations, i, cause>>
run_vars == <<pre_content, restored, io_fault, run_no>>
call_vars == <<called, min_size>>
export_vars == <<export_path, target_languages, xcloc_folders, folder_no, results,
                 xpc, ends>>
ctx_vars == <<app_context, batch_context, prompt_context>>
vars == <<engine_vars, hist_vars, fs_vars, file_vars, run_vars, call_vars,
          export_vars, ctx_vars>>

\* ---------------------------------------------------------------- bounds
MaxUnits == 5        \* longest unit list handed directly to translate_batch
MaxBatch == 5        \* largest initial batch size of a direct call
MaxPending == 2      \* most units without a target in a small document
MaxOver == 2         \* a large document has BatchSize + 1 .. BatchSize + MaxOver units
MaxTranslated == 1   \* most units with a target in a document
MaxBlank == 1        \* most units without a source in a document
MaxRuns == 2         \* translate_file runs on the same file
MaxFolders == 2      \* most .xcloc folders in an export folder

\* ------------------------------------------------------ program constants
max_retries == 3     \* ClaudeClient.__init__(max_retries=3)
BatchSize == 10      \* translate_file: batch_size = 10
DefaultBatchSize == 10  \* translate_batch(..., batch_size: int = 10)

\* ------------------------------------------------------------------ helpers
Min(a, b) == IF a < b THEN a ELSE b
Max(a, b) == IF a > b THEN a ELSE b

\* python s[:k] and s[k:] for k >= 0
Take(s, k) == SubSeq(s, 1, Min(k, Len(s)))
DropMutant(s, k) == SubSeq(s, Min(k, Len(s)) + 2, Len(s))
Drop(s, k) == SubSeq(s, Min(k, Len(s)) + 1, Len(s))

IdsOf(s) == {s[j].id : j \in 1..Len(s)}

Src(n) == [kind |-> "src", of |-> n, lead |-> << >>]
Tr(t) == [kind |-> "tr", of |-> t.of, lead |-> << >>]
Extra == [kind |-> "extra", of |-> 0, lead |-> << >>]

Unit(n) == [id |-> n, text |-> Src(n)]

\* dict.update
UpdateMutant(m1, m2) == m2
Update(m1, m2) ==
    [k \in (DOMAIN m1) \cup (DOMAIN m2) |-> IF k \in DOMAIN m2 THEN m2[k] ELSE m1[k]]

EmptyMap == << >>

\* max(1, current_batch_size // 2)
HalveMutant(k) == k
Halve(k) == Max(1, k \div 2)

\* ------------------------------------------------- the backend and its answer
\* What self.client.messages.create can do for a batch b: raise (the message
\* of the exception may or may not contain the words "count mismatch"), or
\* answer with a text of c >= 1 lines.  Line j of the answer is a record
\* [num, body]: it reads Marker(j) \o body.lead followed by the rest of body
\* when num holds (the backend numbered its lines, "1. "), and body.lead
\* followed by the rest of body otherwise.  The body of line j is the backend's
\* translation of the j-th text of the batch, which may begin with characters
\* of StripChars ("3 pommes"); lines beyond the batch are extra text.  Every
\* line has a character outside StripChars.
Digit == <<"0", "1", "2", "3", "4", "5", "6", "7", "8", "9">>

DecimalOf(j) ==
    IF j < 10 THEN <<Digit[j + 1]>> ELSE <<Digit[(j \div 10) + 1], Digit[(j % 10) + 1]>>

\* the enumeration marker of line j: "1. "
Marker(j) == DecimalOf(j) \o <<".", " ">>

\* what a translation may begin with: nothing to strip, or "3 "
Leads == {<< >>, <<"3", " ">>}

ResponseLines(b, c, numbered, ld) ==
    [j \in 1..c |-> [num |-> numbered,
                     body |-> IF j <= Len(b)
                              THEN [Tr(b[j].text) EXCEPT !.lead = ld]
                              ELSE Extra]]

Outcomes(b) ==
    {[kind |-> "raise", cm |-> f, lines |-> << >>] : f \in BOOLEAN}
    \cup {[kind |-> "lines", cm |-> FALSE, lines |-> ResponseLines(b, c, nb, ld)] :
            c \in {Len(b) - 1, Len(b), Len(b) + 1} \ {0, -1}, nb \in BOOLEAN,
            ld \in Leads}

\* the characters of the argument of lstrip
StripChars == {"0", "1", "2", "3", "4", "5", "6", "7", "8", "9", "-", ".", ")", " "}

\* s.lstrip(chars) on a sequence of characters
RECURSIVE StripLeading(_)
StripLeading(s) ==
    IF s # << >> /\ Head(s) \in StripChars THEN StripLeading(Tail(s)) ELSE s

\* the characters line j of the answer begins with
LinePrefix(line, j) == (IF line.num THEN Marker(j) ELSE << >>) \o line.body.lead

\* t.lstrip('0123456789-.). ') on line j of the answer
LStrip(line, j) == [line.body EXCEPT !.lead = StripLeading(LinePrefix(line, j))]

\* dict comprehension over zip(texts, translations): for equal ids the later wins
ZipMapMutant(b, ls) == [k \in 0..(Len(b) - 1) |-> ls[k + 1]]
ZipMap(b, ls) ==
    [k \in IdsOf(b) |->
        ls[CHOOSE j \in 1..Len(b) :
              /\ b[j].id = k
              /\ \A j2 \in 1..Len(b) : b[j2].id = k => j2 <= j]]

\* _translate_single_batch: the map, or the ValueError it raises.  kind is
\* "ok", "shape" (line count differs) or "backend" (the call itself raised);
\* cm tells whether the lower-cased message contains "count mismatch".
TranslateSingleBatch(b, out) ==
    IF out.kind = "raise"
    THEN [kind |-> "backend", cm |-> out.cm, map |-> EmptyMap]
    ELSE LET stripped == [j \in 1..Len(out.lines) |-> LStrip(out.lines[j], j)]
         IN  IF Len(stripped) # Len(b)
             THEN [kind |-> "shape", cm |-> TRUE, map |-> EmptyMap]
             ELSE [kind |-> "ok", cm |-> FALSE, map |-> ZipMap(b, stripped)]

\* the app context: the text the caller gave and the reference lines appended
\* to it, one [id, text] per line
NoContext == [base |-> "none", header |-> FALSE, refs |-> << >>]
CallerContext == [base |-> "caller", header |-> FALSE, refs |-> << >>]

NoCall == [kind |-> "none", batch |-> << >>, size |-> 0, pending |-> << >>]

\* current_batch_size after a successful batch (line 88 leaves it alone)
SizeAfterSuccessMutant(k, initial) == initial
SizeAfterSuccess(k, initial) == k

\* lines 105-110: after the for loop, skip the first pending text when the
\* batch did not succeed and the batch size is 1
SkipsProblematic(ok, k) == (~ok) /\ k = 1

AfterSkip(ok, k, rem) == IF SkipsProblematic(ok, k) THEN Tail(rem) ELSE rem

LoggedAfterMutant(ok, k, b, lg) == lg
LoggedAfter(ok, k, b, lg) ==
    IF SkipsProblematic(ok, k) THEN lg \cup {b[1].id} ELSE lg

\* lines 79-81 and 112: the head of the while loop, with pending queue rem and
\* batch size k: the next batch, or the return
LoopHead(rem, k) ==
    IF rem # << >>
    THEN /\ batch' = Take(rem, k)
         /\ attempt' = 0
         /\ kinds' = << >>
         /\ pc' = "call"
    ELSE /\ batch' = << >>
         /\ attempt' = 0
         /\ kinds' = << >>
         /\ pc' = "returned"

\* line 71: if not texts
NotTextsMutant(ts) == FALSE
NotTexts(ts) == ts = << >>

\* lines 71-81: entry of translate_batch(ts, ..., app_context = ctx,
\* batch_size = bs)
TranslateBatchEnter(ts, ctx, bs) ==
    /\ texts' = ts
    /\ batch_context' = ctx
    /\ prompt_context' = NoContext
    /\ batch_size' = bs
    /\ failed_log' = {}
    /\ clean_calls' = 0
    /\ last' = NoCall
    /\ owed' = {}
    /\ all_ok' = TRUE
    /\ response' = << >>
    /\ batch_translations' = EmptyMap
    /\ translations' = EmptyMap
    /\ IF NotTexts(ts)
       THEN /\ error' = "NoTexts"
            /\ pc' = "raised"
            /\ remaining_texts' = << >>
            /\ current_batch_size' = bs
            /\ batch' = << >>
            /\ attempt' = 0
            /\ kinds' = << >>
       ELSE /\ error' = "none"
            /\ remaining_texts' = ts
            /\ current_batch_size' = bs
            /\ LoopHead(ts, bs)

\* lines 83-110: one pass of the for loop (one backend call) and what follows
\* it up to the next backend call, the return or the raise
Attempt ==
    /\ pc = "call"
    /\ \E out \in Outcomes(batch) :
         LET r == TranslateSingleBatch(batch, out)
             call == [kind |-> r.kind, batch |-> batch,
                      size |-> current_batch_size, pending |-> remaining_texts]
             risk == IF r.kind = "ok" THEN owed
                     ELSE IF /\ r.kind = "shape"
                             /\ current_batch_size > 1
                             /\ Len(batch) = current_batch_size
                          THEN IdsOf(batch)
                          ELSE {}
             merged == IF r.kind = "ok" THEN Update(translations, r.map)
                       ELSE translations
         IN
         /\ clean_calls' = IF all_ok /\ r.kind = "ok" THEN clean_calls + 1
                           ELSE clean_calls
         /\ last' = call
         /\ owed' = risk \ DOMAIN merged
         /\ all_ok' = (all_ok /\ r.kind = "ok")
         /\ response' = out.lines
         /\ batch_translations' = r.map
         /\ called' = TRUE
         /\ min_size' = IF r.kind # "ok" /\ r.cm /\ current_batch_size > 1
                        THEN Min(min_size, Halve(current_batch_size))
                        ELSE min_size
         /\ prompt_context' = batch_context
         /\ UNCHANGED <<texts, batch_size, fs_vars, file_vars, run_vars, export_vars,
                        app_context, batch_context>>
         /\ IF r.kind = "ok"
            THEN \* lines 87-90
                 LET rem == Drop(remaining_texts, current_batch_size)
                     k == SizeAfterSuccess(current_batch_size, batch_size)
                 IN  /\ translations' = merged
                     /\ current_batch_size' = k
                     /\ remaining_texts' = AfterSkip(TRUE, k, rem)
                     /\ failed_log' = LoggedAfter(TRUE, k, batch, failed_log)
                     /\ error' = error
                     /\ LoopHead(AfterSkip(TRUE, k, rem), k)
            ELSE IF r.cm /\ current_batch_size > 1
            THEN \* lines 92-97
                 LET k == Halve(current_batch_size)
                     rem == AfterSkip(FALSE, k, remaining_texts)
                 IN  /\ translations' = translations
                     /\ current_batch_size' = k
                     /\ remaining_texts' = rem
                     /\ failed_log' = LoggedAfter(FALSE, k, batch, failed_log)
                     /\ error' = error
                     /\ LoopHead(rem, k)
            ELSE IF attempt < max_retries - 1
            THEN \* lines 98-101
                 /\ attempt' = attempt + 1
                 /\ kinds' = Append(kinds, r.kind)
                 /\ UNCHANGED <<translations, current_batch_size, remaining_texts,
                                batch, pc, error, failed_log>>
            ELSE \* lines 102-103
                 /\ pc' = "raised"
                 /\ error' = "Exhausted"
                 /\ kinds' = Append(kinds, r.kind)
                 /\ UNCHANGED <<translations, current_batch_size, remaining_texts,
                                batch, attempt, failed_log>>

\* ------------------------------------------------------ files and documents
\* The content of a file: state "absent", "intact" or "truncated" (opened for
\* writing and not completely written); valid: it parses as an XLIFF document
\* with a source language; units: its trans-units in order; eol: its line
\* endings; form: "orig" as found, "unparse" as xmltodict.unparse writes it
\* (with the target-language attribute set).
NoText == [kind |-> "none", of |-> 0, lead |-> << >>]
Old(j) == [kind |-> "old", of |-> j, lead |-> << >>]

HasText(t) == t.kind # "none"

NoFile == [state |-> "absent", valid |-> FALSE, units |-> << >>,
           eol |-> "lf", form |-> "orig"]
Truncated == [state |-> "truncated", valid |-> FALSE, units |-> << >>,
              eol |-> "lf", form |-> "orig"]

\* a document of nT translated units, then nU units without a target, then nB
\* units without a source; ids are distinct
DocUnits(nT, nU, nB) ==
    [j \in 1..(nT + nU + nB) |->
        IF j <= nT THEN [id |-> j, source |-> Src(j), target |-> Old(j)]
        ELSE IF j <= nT + nU THEN [id |-> j, source |-> Src(j), target |-> NoText]
        ELSE [id |-> j, source |-> NoText, target |-> NoText]]

Documents ==
    {DocUnits(nT, nU, nB) :
        nT \in 0..MaxTranslated, nU \in 0..MaxPending, nB \in 0..MaxBlank}

\* documents longer than one slice of translate_file: nothing translated yet
LargeDocuments == {DocUnits(0, BatchSize + k, 0) : k \in 1..MaxOver}

FileOf(d, e) ==
    [state |-> "intact", valid |-> TRUE, units |-> d, eol |-> e, form |-> "orig"]

LargeFiles == {FileOf(d, "lf") : d \in LargeDocuments}

InputFiles ==
    {FileOf(d, e) : d \in Documents, e \in {"lf", "crlf"}}
    \cup LargeFiles
    \cup {[state |-> "intact", valid |-> FALSE, units |-> << >>, eol |-> "lf",
           form |-> "orig"]}
    \cup {NoFile}

\* open(path, 'r', encoding='utf-8').read(): universal newlines turn "\r\n"
\* into "\n"; open(path, 'w').write(text) writes "\n" as it is (POSIX)
TextRead(c) == IF c.state = "intact" THEN [c EXCEPT !.eol = "lf"] ELSE c

\* lines 39-41: dst.write(src.read()) from input_path to backup_path
BackupContent(c) == TextRead(c)

\* lines 106-108: dst.write(src.read()) from backup_path to input_path
RestoredContentMutant(bak, cur) == cur
RestoredContent(bak, cur) == TextRead(bak)

\* ---------------------------------------------------------- XliffParser
\* _extract_trans_units, lines 84-91: where a unit goes
IsExisting(u, skip) == HasText(u.source) /\ HasText(u.target) /\ skip
IsPendingMutant(u, skip) == HasText(u.source)
IsPending(u, skip) == HasText(u.source) /\ ~(HasText(u.target) /\ skip)

RECURSIVE ExtractPairs(_, _)
ExtractPairs(units, skip) ==
    IF units = << >> THEN << >>
    ELSE LET u == Head(units)
             rest == ExtractPairs(Tail(units), skip)
         IN  IF IsPending(u, skip)
             THEN <<[id |-> u.id, text |-> u.source]>> \o rest
             ELSE rest

ExtractExisting(units, skip) ==
    LET ids == {units[j].id : j \in {j2 \in 1..Len(units) : IsExisting(units[j2], skip)}}
    IN  [k \in ids |->
            units[CHOOSE j \in 1..Len(units) :
                    /\ units[j].id = k
                    /\ IsExisting(units[j], skip)
                    /\ \A j2 \in 1..Len(units) :
                         (units[j2].id = k /\ IsExisting(units[j2], skip)) => j2 <= j
                 ].target]

\* translate_file, lines 66-67: one reference line per entry of
\* existing_translations, in the order the entries were first inserted
RECURSIVE ReferenceLines(_, _, _, _)
ReferenceLines(units, existing, skip, seen) ==
    IF units = << >> THEN << >>
    ELSE LET u == Head(units)
         IN  IF IsExisting(u, skip) /\ u.id \notin seen
             THEN <<[id |-> u.id, text |-> existing[u.id]]>>
                  \o ReferenceLines(Tail(units), existing, skip, seen \cup {u.id})
             ELSE ReferenceLines(Tail(units), existing, skip, seen)

\* translate_file, lines 63-67: the reference block is appended to the context
WithReferencesMutant(ctx, units, existing, skip) == ctx
WithReferences(ctx, units, existing, skip) ==
    IF existing = EmptyMap THEN ctx
    ELSE [ctx EXCEPT !.header = TRUE,
                     !.refs = @ \o ReferenceLines(units, existing, skip, {})]

\* _update_trans_units, lines 135-140
UpdateTransUnits(units, tr) ==
    [j \in 1..Len(units) |->
        IF units[j].id \in DOMAIN tr
        THEN [units[j] EXCEPT !.target = tr[units[j].id]]
        ELSE units[j]]

\* update_translations + xmltodict.unparse(pretty=True)
UpdateTranslations(units, tr) ==
    [state |-> "intact", valid |-> TRUE, units |-> UpdateTransUnits(units, tr),
     eol |-> "lf", form |-> "unparse"]

\* ------------------------------------------- XliffTranslator.translate_file
\* no translate_xcode_export call is going on
None == [given |-> FALSE, langs |-> {}]

NoExport ==
    /\ export_path = [isdir |-> FALSE, folders |-> << >>]
    /\ target_languages = None
    /\ xcloc_folders = << >>
    /\ folder_no = 0
    /\ results = EmptyMap
    /\ xpc = "none"
    /\ ends = EmptyMap

EngineIdle ==
    /\ texts' = << >>
    /\ batch_size' = DefaultBatchSize
    /\ translations' = EmptyMap
    /\ remaining_texts' = << >>
    /\ current_batch_size' = DefaultBatchSize
    /\ batch' = << >>
    /\ attempt' = 0
    /\ pc' = "idle"
    /\ error' = "none"
    /\ failed_log' = {}
    /\ clean_calls' = 0
    /\ last' = NoCall
    /\ owed' = {}
    /\ kinds' = << >>
    /\ all_ok' = TRUE
    /\ response' = << >>
    /\ batch_translations' = EmptyMap
    /\ batch_context' = NoContext
    /\ prompt_context' = NoContext

\* line 101: an exception raised in the try block is caught
FailMutant(c) ==
    /\ cause' = c
    /\ fpc' = "failed"
    /\ restored' = restored
Fail(c) ==
    /\ cause' = c
    /\ fpc' = "restore"

\* lines 33 and 44: an exception raised before the try block
FailBeforeTryMutant(c) ==
    /\ cause' = c
    /\ fpc' = "restore"
FailBeforeTry(c) ==
    /\ cause' = c
    /\ fpc' = "failed"

\* lines 29-44: the existence check and the backup
BeginTranslateFile ==
    /\ fpc = "start"
    /\ UNCHANGED <<engine_vars, hist_vars, input_file, skip_translated, xliff_data,
                   translation_pairs, existing_translations, file_translations, i,
                   pre_content, restored, run_no, call_vars, export_vars, ctx_vars>>
    /\ IF input_file.state = "absent"
       THEN /\ FailBeforeTry("FileNotFound")
            /\ UNCHANGED <<backup_file, io_fault>>
       ELSE \E io \in {"ok", "open_failed", "write_failed"} :
              IF io = "ok"
              THEN /\ backup_file' = BackupContent(input_file)
                   /\ fpc' = "parse"
                   /\ UNCHANGED <<cause, io_fault>>
              ELSE /\ backup_file' = IF io = "write_failed" THEN Truncated
                                     ELSE backup_file
                   /\ FailBeforeTry("BackupFailed")
                   /\ io_fault' = TRUE

\* line 52: not translation_pairs and not existing_translations
NothingFoundMutant(pairs, existing) == FALSE
NothingFound(pairs, existing) == pairs = << >> /\ existing = EmptyMap

\* lines 46-71: parse, the two emptiness checks, the start of the batches
ParseFile ==
    /\ fpc = "parse"
    /\ UNCHANGED <<engine_vars, hist_vars, fs_vars, skip_translated,
                   pre_content, restored, run_no, call_vars, i, export_vars,
                   batch_context, prompt_context>>
    /\ \E io \in {"ok", "read_failed"} :
         IF io = "read_failed"
         THEN /\ Fail("ReadFailed")
              /\ io_fault' = TRUE
              /\ UNCHANGED <<xliff_data, translation_pairs, existing_translations,
                             file_translations, app_context>>
         ELSE /\ io_fault' = io_fault
              /\ IF ~(input_file.state = "intact" /\ input_file.valid)
                 THEN /\ Fail("ParseError")
                      /\ UNCHANGED <<xliff_data, translation_pairs,
                                     existing_translations, file_translations,
                                     app_context>>
                 ELSE LET units == input_file.units
                          pairs == ExtractPairs(units, skip_translated)
                          existing == ExtractExisting(units, skip_translated)
                      IN  /\ xliff_data' = units
                          /\ translation_pairs' = pairs
                          /\ existing_translations' = existing
                          /\ IF NothingFound(pairs, existing)
                             THEN /\ Fail("NoStrings")
                                  /\ file_translations' = file_translations
                                  /\ app_context' = app_context
                             ELSE IF pairs = << >>
                             THEN /\ fpc' = "done"
                                  /\ cause' = cause
                                  /\ file_translations' = file_translations
                                  /\ app_context' = app_context
                             ELSE /\ fpc' = "batches"
                                  /\ cause' = cause
                                  /\ file_translations' = existing
                                  /\ app_context' =
                                       WithReferences(app_context, units,
                                                      existing, skip_translated)

\* lines 73-83: the next slice of translation_pairs goes to translate_batch
StartBatch ==
    /\ fpc = "batches"
    /\ fpc' = "in_batch"
    /\ TranslateBatchEnter(SubSeq(translation_pairs, i + 1,
                                  Min(i + BatchSize, Len(translation_pairs))),
                           app_context, DefaultBatchSize)
    /\ UNCHANGED <<fs_vars, skip_translated, xliff_data, translation_pairs,
                   existing_translations, file_translations, i, cause, run_vars,
                   call_vars, export_vars, app_context>>

\* lines 84-87 and the loop test of line 73: translate_batch returned
BatchReturned ==
    /\ fpc = "in_batch"
    /\ pc = "returned"
    /\ file_translations' = Update(file_translations, translations)
    /\ i' = i + BatchSize
    /\ fpc' = IF i + BatchSize < Len(translation_pairs) THEN "batches" ELSE "rewrite"
    /\ pc' = "idle"
    /\ UNCHANGED <<texts, batch_size, translations, remaining_texts,
                   current_batch_size, batch, attempt, error, failed_log,
                   hist_vars, fs_vars, skip_translated, xliff_data,
                   translation_pairs, existing_translations, cause, run_vars,
                   call_vars, export_vars, ctx_vars>>

\* line 101: translate_batch raised
BatchRaised ==
    /\ fpc = "in_batch"
    /\ pc = "raised"
    /\ Fail("BatchFailed")
    /\ pc' = "idle"
    /\ UNCHANGED <<texts, batch_size, translations, remaining_texts,
                   current_batch_size, batch, attempt, error, failed_log,
                   hist_vars, fs_vars, skip_translated, xliff_data,
                   translation_pairs, existing_translations, file_translations, i,
                   run_vars, call_vars, export_vars, ctx_vars>>

\* lines 89-99: injection and the rewrite of the input file
RewriteFile ==
    /\ fpc = "rewrite"
    /\ UNCHANGED <<engine_vars, hist_vars, backup_file, skip_translated, xliff_data,
                   translation_pairs, existing_translations, file_translations, i,
                   pre_content, restored, run_no, call_vars, export_vars, ctx_vars>>
    /\ \E io \in {"ok", "inject_failed", "open_failed", "write_failed"} :
         IF io = "ok"
         THEN /\ input_file' = UpdateTranslations(xliff_data, file_translations)
              /\ fpc' = "done"
              /\ UNCHANGED <<cause, io_fault>>
         ELSE /\ input_file' = IF io = "write_failed" THEN Truncated ELSE input_file
              /\ Fail(IF io = "inject_failed" THEN "InjectFailed" ELSE "WriteFailed")
              /\ io_fault' = TRUE

\* line 112: the error raised after the restore was tried, for the caught
\* exception e and the end rest of the restore
PropagatedMutant(e, rest) == IF rest = "ok" THEN e ELSE "RestoreFailed"
Propagated(e, rest) == e

\* lines 101-112: restore from the backup, then raise
Restore ==
    /\ fpc = "restore"
    /\ fpc' = "failed"
    /\ UNCHANGED <<engine_vars, hist_vars, backup_file, skip_translated, xliff_data,
                   translation_pairs, existing_translations, file_translations, i,
                   pre_content, run_no, call_vars, export_vars, ctx_vars>>
    /\ \E io \in {"ok", "open_failed", "write_failed"} :
         IF io = "ok"
         THEN /\ input_file' = RestoredContent(backup_file, input_file)
              /\ restored' = "ok"
              /\ io_fault' = io_fault
              /\ cause' = Propagated(cause, "ok")
         ELSE /\ input_file' = IF io = "write_failed" THEN Truncated ELSE input_file
              /\ restored' = "failed"
              /\ io_fault' = TRUE
              /\ cause' = Propagated(cause, "failed")

\* the caller runs translate_file again on the same path, skipping translated
\* units (main.py without --translate-all)
Rerun ==
    /\ fpc \in {"done", "failed"}
    /\ run_no < MaxRuns
    /\ run_no' = run_no + 1
    /\ fpc' = "start"
    /\ skip_translated' = TRUE
    /\ xliff_data' = << >>
    /\ translation_pairs' = << >>
    /\ existing_translations' = EmptyMap
    /\ file_translations' = EmptyMap
    /\ i' = 0
    /\ cause' = "none"
    /\ pre_content' = input_file
    /\ called' = FALSE
    /\ min_size' = BatchSize
    /\ restored' = "none"
    /\ io_fault' = FALSE
    /\ EngineIdle
    /\ app_context' = CallerContext
    /\ UNCHANGED <<fs_vars, export_vars>>

Init ==
    /\ app_context = CallerContext
    /\ batch_context = NoContext
    /\ prompt_context = NoContext
    /\ input_file \in InputFiles
    /\ backup_file = NoFile
    /\ skip_translated \in (IF input_file \in LargeFiles THEN {TRUE} ELSE BOOLEAN)
    /\ fpc = "start"
    /\ xliff_data = << >>
    /\ translation_pairs = << >>
    /\ existing_translations = EmptyMap
    /\ file_translations = EmptyMap
    /\ i = 0
    /\ cause = "none"
    /\ pre_content = input_file
    /\ called = FALSE
    /\ min_size = BatchSize
    /\ restored = "none"
    /\ io_fault = FALSE
    /\ run_no = 1
    /\ texts = << >>
    /\ batch_size = DefaultBatchSize
    /\ translations = EmptyMap
    /\ remaining_texts = << >>
    /\ current_batch_size = DefaultBatchSize
    /\ batch = << >>
    /\ attempt = 0
    /\ pc = "idle"
    /\ error = "none"
    /\ failed_log = {}
    /\ clean_calls = 0
    /\ last = NoCall
    /\ owed = {}
    /\ kinds = << >>
    /\ all_ok = TRUE
    /\ response = << >>
    /\ batch_translations = EmptyMap
    /\ NoExport

Next ==
    \/ BeginTranslateFile
    \/ ParseFile
    \/ StartBatch
    \/ Attempt
    \/ BatchReturned
    \/ BatchRaised
    \/ RewriteFile
    \/ Restore
    \/ Rerun

Spec == Init /\ [][Next]_vars

\* -------------------------------------------- a direct call of translate_batch
UnitList(n) == [j \in 1..n |-> Unit(j)]

EngineInit ==
    /\ app_context = NoContext
    /\ batch_context = CallerContext
    /\ prompt_context = NoContext
    /\ texts \in {UnitList(n) : n \in 0..MaxUnits}
    /\ batch_size \in 1..MaxBatch
    /\ translations = EmptyMap
    /\ remaining_texts = << >>
    /\ current_batch_size = batch_size
    /\ batch = << >>
    /\ attempt = 0
    /\ pc = "idle"
    /\ error = "none"
    /\ failed_log = {}
    /\ clean_calls = 0
    /\ last = NoCall
    /\ owed = {}
    /\ kinds = << >>
    /\ all_ok = TRUE
    /\ response = << >>
    /\ batch_translations = EmptyMap
    /\ NoExport
    /\ input_file = NoFile
    /\ backup_file = NoFile
    /\ skip_translated = TRUE
    /\ fpc = "none"
    /\ xliff_data = << >>
    /\ translation_pairs = << >>
    /\ existing_translations = EmptyMap
    /\ file_translations = EmptyMap
    /\ i = 0
    /\ cause = "none"
    /\ pre_content = NoFile
    /\ called = FALSE
    /\ min_size = batch_size
    /\ restored = "none"
    /\ io_fault = FALSE
    /\ run_no = 1

TranslateBatchCall ==
    /\ pc = "idle"
    /\ fpc = "none"
    /\ TranslateBatchEnter(texts, batch_context, batch_size)
    /\ UNCHANGED <<fs_vars, file_vars, run_vars, call_vars, export_vars,
                   app_context>>

EngineNext == TranslateBatchCall \/ Attempt

EngineSpec == EngineInit /\ [][EngineNext]_vars

\* translate_batch is one synchronous loop of one thread: once it is called it
\* runs, and each backend call it makes comes back with an answer or with an
\* exception (after time.sleep(retry_delay) on a retry), which the loop then
\* handles.  Which answer comes back stays the backend's choice.
EngineFairSpec ==
    /\ EngineInit
    /\ [][EngineNext]_vars
    /\ WF_vars(TranslateBatchCall)
    /\ WF_vars(Attempt)

\* ------------------------------------ XliffTranslator.translate_xcode_export
\* An .xcloc folder that glob finds is a record [lang, xliff]: its path is
\* <export_path>/<lang>.xcloc, and xliff is the content of the file
\* "Localized Contents/<lang>.xliff" in it.  The names in one directory are
\* different from each other.
Langs == {"en", "EN", "fr", "de"}

\* what can be at <lang>.xcloc/Localized Contents/<lang>.xliff: nothing, or a
\* document with one unit to translate
XliffFiles == {NoFile, FileOf(DocUnits(0, 1, 0), "lf")}

Folders == {[lang |-> l, xliff |-> x] : l \in Langs, x \in XliffFiles}

FolderLists ==
    {fs \in UNION {[1..n -> Folders] : n \in 0..MaxFolders} :
        \A j, k \in 1..Len(fs) : fs[j].lang = fs[k].lang => j = k}

\* main.py, lines 100-102: None, or the non-empty list given with --languages
AllowLists ==
    {None, [given |-> TRUE, langs |-> {"fr"}], [given |-> TRUE, langs |-> {"en", "de"}]}

\* str.lower
Lower(l) == IF l = "EN" THEN "en" ELSE l

\* line 141: os.path.basename(xcloc_folder).replace('.xcloc', '')
LangCode(f) == f.lang

\* line 144: lang_code.lower() == 'en'
IsEnglishSource(l) == Lower(l) = "en"

\* line 149: target_languages and lang_code not in target_languages
NotTarget(l, allow) == allow.given /\ allow.langs # {} /\ l \notin allow.langs

\* lines 169 and 174: the entry of results after the translate_file run
SucceededMutant(end) == TRUE
Succeeded(end) == end = "done"

One(l, v) == [k \in {l} |-> v]

\* lines 140-158: the for loop from folder number k + 1 on, up to the folder
\* that needs a translate_file run or to the end of the list
RECURSIVE Advance(_, _, _, _, _)
Advance(fs, allow, k, res, en) ==
    IF k >= Len(fs) THEN [k |-> k, res |-> res, en |-> en]
    ELSE LET l == LangCode(fs[k + 1])
         IN  IF IsEnglishSource(l) \/ NotTarget(l, allow)
             THEN Advance(fs, allow, k + 1, res, en)
             ELSE IF fs[k + 1].xliff.state = "absent"
             THEN Advance(fs, allow, k + 1, Update(res, One(l, FALSE)),
                          Update(en, One(l, "missing")))
             ELSE [k |-> k, res |-> res, en |-> en]

\* lines 162-168: translate_file is called on the file with content c
StartTranslateFile(c) ==
    /\ fpc' = "start"
    /\ input_file' = c
    /\ backup_file' = NoFile
    /\ xliff_data' = << >>
    /\ translation_pairs' = << >>
    /\ existing_translations' = EmptyMap
    /\ file_translations' = EmptyMap
    /\ i' = 0
    /\ cause' = "none"
    /\ pre_content' = c
    /\ called' = FALSE
    /\ min_size' = BatchSize
    /\ restored' = "none"
    /\ io_fault' = FALSE
    /\ EngineIdle
    /\ app_context' = CallerContext
    /\ UNCHANGED <<skip_translated, run_no>>

\* the for loop goes on after k folders, with the map res: up to the next
\* translate_file call, or to the return of line 178
ExportLoop(fs, k, res, en) ==
    LET a == Advance(fs, target_languages, k, res, en)
    IN  /\ folder_no' = a.k
        /\ results' = a.res
        /\ ends' = a.en
        /\ IF a.k >= Len(fs)
           THEN /\ xpc' = "returned"
                /\ fpc' = "none"
                /\ UNCHANGED <<engine_vars, hist_vars, fs_vars, skip_translated,
                               xliff_data, translation_pairs, existing_translations,
                               file_translations, i, cause, run_vars, call_vars,
                               ctx_vars>>
           ELSE /\ xpc' = "in_file"
                /\ StartTranslateFile(fs[a.k + 1].xliff)

\* lines 126-138: the entry of translate_xcode_export
TranslateXcodeExport ==
    /\ xpc = "start"
    /\ UNCHANGED <<export_path, target_languages>>
    /\ IF ~export_path.isdir \/ export_path.folders = << >>
       THEN /\ xpc' = "raised"
            /\ UNCHANGED <<engine_vars, hist_vars, fs_vars, file_vars, run_vars,
                           call_vars, xcloc_folders, folder_no, results, ends,
                           ctx_vars>>
       ELSE /\ xcloc_folders' = export_path.folders
            /\ ExportLoop(export_path.folders, 0, EmptyMap, EmptyMap)

\* lines 169-174: translate_file returned or raised
FileFinished ==
    /\ xpc = "in_file"
    /\ fpc \in {"done", "failed"}
    /\ UNCHANGED <<export_path, target_languages, xcloc_folders>>
    /\ LET l == LangCode(xcloc_folders[folder_no + 1])
       IN  ExportLoop(xcloc_folders, folder_no + 1,
                      Update(results, One(l, Succeeded(fpc))),
                      Update(ends, One(l, fpc)))

ExportInit ==
    /\ app_context = CallerContext
    /\ batch_context = NoContext
    /\ prompt_context = NoContext
    /\ export_path \in {[isdir |-> TRUE, folders |-> fs] : fs \in FolderLists}
                        \cup {[isdir |-> FALSE, folders |-> << >>]}
    /\ target_languages \in AllowLists
    /\ xcloc_folders = << >>
    /\ folder_no = 0
    /\ results = EmptyMap
    /\ xpc = "start"
    /\ ends = EmptyMap
    /\ texts = << >>
    /\ batch_size = DefaultBatchSize
    /\ translations = EmptyMap
    /\ remaining_texts = << >>
    /\ current_batch_size = DefaultBatchSize
    /\ batch = << >>
    /\ attempt = 0
    /\ pc = "idle"
    /\ error = "none"
    /\ failed_log = {}
    /\ clean_calls = 0
    /\ last = NoCall
    /\ owed = {}
    /\ kinds = << >>
    /\ all_ok = TRUE
    /\ response = << >>
    /\ batch_translations = EmptyMap
    /\ input_file = NoFile
    /\ backup_file = NoFile
    /\ skip_translated = TRUE
    /\ fpc = "none"
    /\ xliff_data = << >>
    /\ translation_pairs = << >>
    /\ existing_translations = EmptyMap
    /\ file_translations = EmptyMap
    /\ i = 0
    /\ cause = "none"
    /\ pre_content = NoFile
    /\ called = FALSE
    /\ min_size = BatchSize
    /\ restored = "none"
    /\ io_fault = FALSE
    /\ run_no = 1

ExportNext ==
    \/ TranslateXcodeExport
    \/ FileFinished
    \/ BeginTranslateFile
    \/ ParseFile
    \/ StartBatch
    \/ Attempt
    \/ BatchReturned
    \/ BatchRaised
    \/ RewriteFile
    \/ Restore

ExportSpec == ExportInit /\ [][ExportNext]_vars

\* =================================================================== claims
\* ---- claims about one translate_batch invocation (EngineSpec)

\* C1: translate_batch either raises or returns a map whose keys are input
\* ids, and every input id missing from the returned map was logged as a
\* failed unit.
C1_ReturnedKeysAreInputIdsAndLossesLogged ==
    /\ DOMAIN translations \subseteq IdsOf(texts)
    /\ pc = "returned" =>
         \A u \in IdsOf(texts) \ DOMAIN translations : u \in failed_log

C1_Witness ==
    /\ pc = "returned"
    /\ translations # EmptyMap
    /\ IdsOf(texts) \ DOMAIN translations # {}

\* C2: when the batch size is 1 and the single unit fails on all max_retries
\* attempts, translate_batch does not raise; it drops (and logs) the unit.
C2_SizeOneExhaustionDropsUnit ==
    (current_batch_size = 1 /\ Len(kinds) = max_retries)
        => (pc # "raised" /\ last.batch[1].id \in failed_log)

\* C3: after a shape mismatch of a batch of k > 1 units the very next backend call is
\* for the first floor(k/2) units of the same batch, with the pending queue
\* untouched and a full attempt budget.
C3_MismatchRetriesHalfOfSameBatch ==
    (last.kind = "shape" /\ last.size > 1 /\ Len(last.batch) = last.size)
        => /\ pc = "call"
           /\ batch = Take(last.batch, last.size \div 2)
           /\ remaining_texts = last.pending
           /\ attempt = 0

\* C4: if the last failed backend call of a run was a shape mismatch of a batch
\* of k > 1 units (every call after it succeeded), the returned map contains
\* every unit of the mismatched batch: none of them is still owed.
C4_MismatchAloneLosesNoUnit ==
    pc = "returned" => owed = {}

\* C5: translate_batch on a non-empty list raises only if the backend call
\* itself raised (a non-shape error) on all max_retries attempts of the batch.
C5_RaisesOnlyOnBackendErrors ==
    (pc = "raised" /\ texts # << >>)
        => /\ Len(kinds) = max_retries
           /\ \A j \in 1..Len(kinds) : kinds[j] = "backend"

\* C6: within one translate_batch invocation the current batch size never
\* increases and never drops below 1, and the sizes of the batches handed to
\* the backend are non-increasing.
C6_BatchSizeNonIncreasing ==
    [][pc = "call" =>
         /\ current_batch_size' <= current_batch_size
         /\ current_batch_size' >= 1
         /\ pc' = "call" => Len(batch') <= Len(batch)]_vars

C6_Witness ==
    /\ pc = "call"
    /\ last.kind = "ok"
    /\ current_batch_size < batch_size
    /\ Len(batch) = current_batch_size

\* ceil(n / b)
CeilDiv(n, b) == (n + b - 1) \div b

\* C8: when every backend call succeeds, n units at batch size b take exactly
\* ceil(n/b) calls over consecutive slices of the list in order, each of size b
\* except the last of size n - b*(ceil(n/b)-1), and the result has n entries,
\* one per input id.
C8_AllSuccessSlices ==
    (all_ok /\ texts # << >> /\ pc # "idle") =>
        LET n == Len(texts)
            b == batch_size
        IN  /\ pc = "call" =>
                /\ clean_calls < CeilDiv(n, b)
                /\ batch = SubSeq(texts, clean_calls * b + 1, Min((clean_calls + 1) * b, n))
                /\ Len(batch) = IF clean_calls + 1 < CeilDiv(n, b)
                                THEN b ELSE n - b * (CeilDiv(n, b) - 1)
            /\ pc = "returned" =>
                /\ clean_calls = CeilDiv(n, b)
                /\ DOMAIN translations = IdsOf(texts)
                /\ Cardinality(DOMAIN translations) = n
                /\ \A j \in 1..n : translations[texts[j].id] = Tr(texts[j].text)

C8_Witness ==
    /\ pc = "returned"
    /\ all_ok
    /\ Len(texts) = 5
    /\ batch_size = 2
    /\ clean_calls = 3

\* ---- claims about one translate_file run (Spec)

AllTranslated(c) ==
    /\ c.state = "intact"
    /\ c.valid
    /\ \A j \in 1..Len(c.units) :
          HasText(c.units[j].source) => HasText(c.units[j].target)

HasSourceUnit(c) == \E j \in 1..Len(c.units) : HasText(c.units[j].source)

\* C10 (as stated): a run with skip_translated on a file in which every unit
\* with a source already has a target (and no file operation fails) makes no
\* backend call, returns successfully and leaves the file content as it was.
C10_AllTranslatedRunIsNoOp ==
    (/\ fpc \in {"done", "failed"}
     /\ skip_translated
     /\ ~io_fault
     /\ AllTranslated(pre_content))
        => (fpc = "done" /\ ~called /\ input_file = pre_content)

\* C10 (amended): the same for a file in which at least one unit has a source
\* and every unit with a source has a target, in every run of a sequence of
\* runs on the file.
C10_TranslatedFileRunIsNoOp ==
    (/\ fpc \in {"done", "failed"}
     /\ skip_translated
     /\ ~io_fault
     /\ HasSourceUnit(pre_content)
     /\ AllTranslated(pre_content))
        => (fpc = "done" /\ ~called /\ input_file = pre_content)

C10_Witness ==
    /\ fpc = "done"
    /\ run_no = 2
    /\ skip_translated
    /\ ~io_fault
    /\ ~called
    /\ HasSourceUnit(pre_content)
    /\ AllTranslated(pre_content)
    /\ pre_content.form = "orig"
    /\ input_file = pre_content

\* ---- claims about the result map, the backend call and the queue

\* every entry of the map tr is the target of a unit of the content c
InFile(c, tr) ==
    \A k \in DOMAIN tr :
        \E j \in 1..Len(c.units) : c.units[j].id = k /\ c.units[j].target = tr[k]

\* every entry of the map m1 is an entry of the map m2
Extends(m2, m1) ==
    \A k \in DOMAIN m1 : k \in DOMAIN m2 /\ m2[k] = m1[k]

\* C11 (as stated): the translations merged before a later batch of the run
\* fails are still delivered: after a run that translate_batch ended by
\* raising (and whose restore worked) the file holds every translation that
\* had been merged into the result.
C11_PartialResultsReachFile ==
    (fpc = "failed" /\ cause = "BatchFailed" /\ restored = "ok")
        => InFile(input_file, Update(file_translations, translations))

\* C11 (amended): the result only grows while an invocation goes on (a failed
\* backend call removes nothing from it), a returning invocation hands all of
\* it to translate_file, whose own map only grows and is what the rewritten
\* file holds; an invocation that raises delivers nothing: translate_file
\* merges nothing from it and goes to the restore.
C11_ResultGrowsAndReturnDelivers ==
    [][/\ (pc = "call" /\ pc' # "idle") => Extends(translations', translations)
       /\ (fpc = "in_batch" /\ pc = "returned" /\ pc' = "idle")
            => /\ Extends(file_translations', translations)
               /\ Extends(file_translations', file_translations)
       /\ (fpc = "in_batch" /\ pc = "raised" /\ pc' = "idle")
            => /\ file_translations' = file_translations
               /\ fpc' = "restore"
       /\ (fpc = "rewrite" /\ fpc' = "done")
            => InFile(input_file', file_translations)]_vars

C11_Witness ==
    /\ fpc = "in_batch"
    /\ pc = "call"
    /\ last.kind = "backend"
    /\ translations # EmptyMap
    /\ Len(remaining_texts) < Len(texts)

\* C12: in every translate_file run that reaches the injection step, every id
\* of the translations map handed to it is the id of an existing translation
\* or of a pending unit returned by the extraction, whatever the backend
\* answered.
C12_NoForeignIds ==
    fpc \in {"batches", "in_batch", "rewrite", "done"}
        => DOMAIN file_translations
              \subseteq DOMAIN existing_translations \cup IdsOf(translation_pairs)

C12_Witness ==
    /\ fpc = "rewrite"
    /\ DOMAIN existing_translations # {}
    /\ DOMAIN file_translations \cap IdsOf(translation_pairs) # {}
    /\ IdsOf(translation_pairs) \ DOMAIN file_translations # {}

\* C13: a backend call on a batch of n units either fails or returns a map
\* whose keys are exactly the ids of the batch and in which the id of the
\* j-th unit maps to the j-th line of the answer without its enumeration
\* marker; an answer whose number of lines differs from n makes the call fail
\* with a count mismatch and yields no map.
C13_MapIsResponseByPosition ==
    /\ last.kind = "ok" =>
          /\ DOMAIN batch_translations = IdsOf(last.batch)
          /\ \A j \in 1..Len(last.batch) :
                batch_translations[last.batch[j].id] = response[j].body
    /\ (response # << >> /\ Len(response) # Len(last.batch)) =>
          /\ last.kind = "shape"
          /\ batch_translations = EmptyMap

\* C14: translate_batch called with an empty unit list raises at once: no
\* backend call is made and no result map, not even an empty one, is returned.
C14_EmptyListFailsFast ==
    (texts = << >> /\ pc # "idle")
        => /\ pc = "raised"
           /\ error = "NoTexts"
           /\ ~called
           /\ last = NoCall
           /\ translations = EmptyMap

C14_Witness ==
    /\ texts = << >>
    /\ pc = "raised"
    /\ error = "NoTexts"
    /\ fpc = "none"

\* ---- claims about one translate_xcode_export call (ExportSpec)

\* C15: in directory mode every folder found whose language is neither the
\* English source nor left out by the allowlist is processed and has one entry
\* in the returned map, true exactly when its translate_file run succeeded
\* (false when it raised or the XLIFF file is missing); the skipped and the
\* left-out languages have no entry; a failed folder stops nothing: once
\* folders were found the call returns, and only after the last folder.
C15_BundlesIndependent ==
    /\ (xpc = "raised") => (~export_path.isdir \/ export_path.folders = << >>)
    /\ (xpc = "returned") =>
          /\ folder_no = Len(export_path.folders)
          /\ \A j \in 1..Len(export_path.folders) :
                LET f == export_path.folders[j]
                    l == f.lang
                IN  IF Lower(l) = "en"
                       \/ (target_languages # None /\ l \notin target_languages.langs)
                    THEN l \notin DOMAIN results
                    ELSE /\ l \in DOMAIN results
                         /\ l \in DOMAIN ends
                         /\ (f.xliff.state = "absent") <=> (ends[l] = "missing")
                         /\ results[l] = (ends[l] = "done")
    /\ DOMAIN results \subseteq {export_path.folders[j].lang :
                                    j \in 1..Len(export_path.folders)}

C15_Witness ==
    /\ xpc = "returned"
    /\ Len(export_path.folders) = 2
    /\ {export_path.folders[1].lang, export_path.folders[2].lang} \subseteq DOMAIN results
    /\ ends[export_path.folders[1].lang] = "failed"
    /\ results[export_path.folders[1].lang] = FALSE
    /\ results[export_path.folders[2].lang] = TRUE

\* ---- claims about one translate_file run (Spec), continued

\* ids of the units of the content c that have a target
TranslatedIds(c) ==
    {c.units[j].id : j \in {j2 \in 1..Len(c.units) : HasText(c.units[j2].target)}}

\* C16: with skip_translated, a unit that has a target when the run starts is
\* in no batch handed to the backend, and after a successful run its target in
\* the file is the target it had before the run, whatever the backend answered
\* for the other units.
C16_TranslatedEntriesPreserved ==
    skip_translated =>
        /\ (fpc = "in_batch" /\ pc = "call")
              => IdsOf(batch) \cap TranslatedIds(pre_content) = {}
        /\ fpc = "done"
              => /\ Len(input_file.units) = Len(pre_content.units)
                 /\ \A j \in 1..Len(pre_content.units) :
                       HasText(pre_content.units[j].target)
                           => /\ input_file.units[j].id = pre_content.units[j].id
                              /\ input_file.units[j].target = pre_content.units[j].target

C16_Witness ==
    /\ skip_translated
    /\ fpc = "done"
    /\ called
    /\ TranslatedIds(pre_content) # {}
    /\ TranslatedIds(input_file) \ TranslatedIds(pre_content) # {}

\* ---- claims about one translate_batch invocation (EngineSpec), continued

\* C17: a unit is dropped from the pending queue without a translation only
\* after it was sent to the backend alone and failed max_retries times; in
\* particular the backend call that precedes the drop is a call for a batch
\* that holds this unit alone: no unit is dropped without having been sent on
\* its own.
C17_DroppedOnlyAfterSoloAttempt ==
    [][\A u \in failed_log' \ failed_log :
          /\ pc = "call"
          /\ Len(batch) = 1
          /\ batch[1].id = u]_vars

\* C18: after a failure of a batch at batch size > 1 in which the backend call
\* itself raised, the queue and the batch size are as they were; while attempts
\* remain the next backend call is for the same batch, and after max_retries
\* such attempts in a row the call has raised, with no unit dropped.
C18_BackendFailureRetriesSameBatch ==
    (last.kind = "backend" /\ last.size > 1) =>
        /\ remaining_texts = last.pending
        /\ current_batch_size = last.size
        /\ Len(kinds) \in 1..max_retries
        /\ IF Len(kinds) < max_retries
           THEN /\ pc = "call"
                /\ batch = last.batch
                /\ attempt = Len(kinds)
           ELSE /\ pc = "raised"
                /\ error = "Exhausted"

\* C19: a failure in which the backend call itself raised never triggers
\* bisection, whatever the message of the error: after it the current batch
\* size is the size the failed call was made with, and no unit has left the
\* queue.
C19_BackendErrorNeverBisects ==
    last.kind = "backend" =>
        /\ current_batch_size = last.size
        /\ remaining_texts = last.pending

\* s is what is left of t after some units were taken from its front
IsSuffix(s, t) == \E d \in 0..Len(t) : s = SubSeq(t, d + 1, Len(t))

\* C20: the pending queue is consumed from its front, in input order: every
\* batch handed to the backend is a non-empty prefix of the pending queue,
\* which is what is left of the input list; a step only removes units from the
\* front of the queue, each of them translated or logged as failed; no unit
\* of a batch is already in the result or dropped.
C20_QueueConsumedFrontToBack ==
    [][/\ (pc' = "call") =>
            /\ batch' # << >>
            /\ batch' = SubSeq(remaining_texts', 1, Len(batch'))
            /\ IsSuffix(remaining_texts', texts')
            /\ IdsOf(batch') \cap (DOMAIN translations' \cup failed_log') = {}
       /\ (pc = "call") =>
            /\ IsSuffix(remaining_texts', remaining_texts)
            /\ \A j \in 1..(Len(remaining_texts) - Len(remaining_texts')) :
                  remaining_texts[j].id \in DOMAIN translations' \cup failed_log'
            /\ IdsOf(remaining_texts') \cap (DOMAIN translations' \cup failed_log') = {}]_vars

C20_Witness ==
    /\ pc = "call"
    /\ fpc = "none"
    /\ failed_log # {}
    /\ translations # EmptyMap
    /\ Len(batch) < Len(remaining_texts)
    /\ batch[1].id > 2

\* the steps of a run after the backup was written
AfterBackup == {"parse", "batches", "in_batch", "rewrite", "restore"}

\* C21: a translate_file run goes backup, parse, translate, rewrite, done:
\* parsing and backend calls happen only with the backup written; the target
\* file gets new content only in the rewrite step, which is entered only when
\* every slice was handed to translate_batch and returned, and is left for
\* good; a failure after the backup leads to the restore and nowhere else.
C21_RunFollowsStepOrder ==
    [][/\ (fpc = "start") => fpc' \in {"start", "parse", "failed"}
       /\ (fpc = "parse") => fpc' \in {"parse", "batches", "done", "restore"}
       /\ (fpc = "batches") => fpc' \in {"batches", "in_batch"}
       /\ (fpc = "in_batch") => fpc' \in {"in_batch", "batches", "rewrite", "restore"}
       /\ (fpc = "rewrite") => fpc' \in {"rewrite", "done", "restore"}
       /\ (fpc = "restore") => fpc' \in {"restore", "failed"}
       /\ (fpc' \in AfterBackup) => backup_file' = BackupContent(pre_content')
       /\ (called' /\ ~called) => (fpc = "in_batch" /\ fpc' \in AfterBackup)
       /\ (xliff_data' # xliff_data /\ fpc # "done" /\ fpc # "failed")
            => fpc = "parse"
       /\ (input_file' # input_file) => fpc \in {"rewrite", "restore"}
       /\ (fpc' = "rewrite") =>
            /\ pc' = "idle"
            /\ i' >= Len(translation_pairs')
            /\ cause' = "none"
       /\ (fpc \in AfterBackup /\ cause = "none" /\ cause' # "none")
            => fpc' = "restore"
       /\ (fpc' = "done") => cause' = "none"]_vars

C21_Witness ==
    /\ fpc = "done"
    /\ called
    /\ i > BatchSize
    /\ input_file.form = "unparse"
    /\ backup_file = BackupContent(pre_content)

\* C22: when the backup cannot be written the run ends with an error at
\* once: the target file was not parsed, not written and not restored over,
\* no backend call was made, and the target file holds its pre-run content.
C22_BackupFailureAbortsUntouched ==
    cause = "BackupFailed" =>
        /\ fpc = "failed"
        /\ input_file = pre_content
        /\ xliff_data = << >>
        /\ translation_pairs = << >>
        /\ restored = "none"
        /\ ~called

C22_Witness ==
    /\ cause = "BackupFailed"
    /\ fpc = "failed"
    /\ input_file.state = "intact"
    /\ input_file.form = "unparse"
    /\ backup_file = Truncated

\* C23: a failure during parse, translation or rewrite leads to an attempt
\* to restore before the error goes to the caller, and the error that goes
\* to the caller is the one of the original failure, whether the restore
\* worked or failed.
C23_RestoreTriedAndErrorKept ==
    [][/\ (fpc \in {"parse", "batches", "in_batch", "rewrite"} /\ cause' # "none")
            => (fpc' = "restore" /\ restored' = "none")
       /\ (fpc = "restore") => (fpc' = "failed" => /\ cause # "none"
                                                  /\ cause' = cause
                                                  /\ restored' \in {"ok", "failed"})
       /\ (fpc' = "failed" /\ cause' \notin {"FileNotFound", "BackupFailed"})
            => restored' # "none"]_vars

C23_Witness ==
    /\ fpc = "failed"
    /\ restored = "failed"
    /\ cause = "BatchFailed"
    /\ error = "Exhausted"

C24_WitnessNoOp ==
    /\ translation_pairs = << >>
    /\ existing_translations # EmptyMap
    /\ fpc = "done"

\* ---- claims about the app context of one translate_file run (Spec)

\* the ids of the units of the file content c that translate_file treats as
\* already translated
ReferencedIds(c, skip) ==
    {c.units[j].id :
        j \in {j2 \in 1..Len(c.units) :
                  /\ skip
                  /\ HasText(c.units[j2].source)
                  /\ HasText(c.units[j2].target)}}

\* the context ctx is the caller's context followed by one reference line for
\* each already translated unit of the content c, holding the target it has
\* in c, and by nothing else
IsContextOf(ctx, c, skip) ==
    /\ ctx.base = "caller"
    /\ ctx.header = (ReferencedIds(c, skip) # {})
    /\ {ctx.refs[j].id : j \in 1..Len(ctx.refs)} = ReferencedIds(c, skip)
    /\ Len(ctx.refs) = Cardinality(ReferencedIds(c, skip))
    /\ \A j \in 1..Len(ctx.refs) :
          \E j2 \in 1..Len(c.units) :
             /\ c.units[j2].id = ctx.refs[j].id
             /\ c.units[j2].target = ctx.refs[j].text

\* C25: from the first batch call of a translate_file run to the rewrite, the
\* app context is the caller's context plus one reference line per translation
\* the file held when the run started, it names no unit the run translates,
\* no step of the translation loop changes it, and every backend call of the
\* run (first attempts, retries and calls on bisected batches) gets exactly
\* that context.
C25_OneContextPerRun ==
    /\ [](fpc \in {"batches", "in_batch", "rewrite"}
            => /\ IsContextOf(app_context, pre_content, skip_translated)
               /\ \A j \in 1..Len(app_context.refs) :
                     /\ app_context.refs[j].id \notin IdsOf(translation_pairs)
                     /\ app_context.refs[j].id \notin DOMAIN translations)
    /\ [][/\ fpc \in {"batches", "in_batch"} => app_context' = app_context
          /\ (fpc = "in_batch" /\ pc = "call")
                => prompt_context' = app_context]_vars

C25_Witness ==
    /\ fpc = "in_batch"
    /\ pc = "call"
    /\ last.kind = "backend"
    /\ last.size < DefaultBatchSize
    /\ attempt > 0
    /\ app_context.refs # << >>
    /\ prompt_context = app_context

\* ---- termination of one translate_batch invocation (EngineFairSpec)

\* a bound on the backend calls still to come: the pending queue first, then
\* the batch size, then the attempts left for the current batch
CallsLeft(rem, k, a) ==
    (Len(rem) * (batch_size + 1) + k) * (max_retries + 1) + (max_retries - a)

\* C26: every translate_batch invocation ends by returning or raising,
\* whatever the backend answers; every backend call either shortens the
\* pending queue, or strictly reduces the batch size, or ends the invocation
\* by raising, or is followed by a retry of the same batch, of which a round
\* has fewer than max_retries; and the number of backend calls still possible
\* strictly decreases with every call, so that an invocation on n units with
\* initial size b makes at most (n * (b + 1) + b) * (max_retries + 1)
\* + max_retries calls.
C26_TranslateBatchTerminates ==
    /\ <>(pc \in {"returned", "raised"})
    /\ [](pc = "call" => /\ remaining_texts # << >>
                         /\ current_batch_size \in 1..batch_size
                         /\ attempt \in 0..(max_retries - 1))
    /\ [][pc = "call" =>
            /\ \/ Len(remaining_texts') < Len(remaining_texts)
               \/ current_batch_size' < current_batch_size
               \/ pc' = "raised"
               \/ /\ attempt' = attempt + 1
                  /\ attempt' < max_retries
                  /\ batch' = batch
                  /\ remaining_texts' = remaining_texts
                  /\ current_batch_size' = current_batch_size
            /\ \/ pc' = "raised"
               \/ CallsLeft(remaining_texts', current_batch_size', attempt')
                     < CallsLeft(remaining_texts, current_batch_size, attempt)]_vars

C26_Witness ==
    /\ pc = "returned"
    /\ texts # << >>
    /\ failed_log # {}
    /\ translations # EmptyMap
    /\ current_batch_size < batch_size

====
